---- MODULE Spec2Model ----
(***************************************************************************)
(* Model of src/jq.go: a Go session object (JQ) over libjq.                *)
(*                                                                         *)
(* The session holds one jv (lastValue) and the reference count recorded   *)
(* when it was pulled (prevRefCnt).  A jv is a C struct passed by value:   *)
(* its kind tag lives in the struct, its payload (for strings and for      *)
(* invalid-with-message values) lives in a reference-counted heap cell.    *)
(*                                                                         *)
(* libjq is called through cgo and is not part of src/; its operations     *)
(* are modelled at the call sites by their libjq 1.5/1.6 behaviour:        *)
(*   jv_free(j)            drops one reference; no-op for unallocated jv   *)
(*   jv_get_refcnt(j)      payload count for string/array/object, else 1   *)
(*   jv_dump_string(j, 0)  CONSUMES j (one reference), returns a new       *)
(*                         string; on an invalid j it hits assert(0) (or,  *)
(*                         built with NDEBUG, prints nothing)              *)
(*   jv_string_value(j)    borrows j, reads the payload                    *)
(*   jv_parse(text)        a value, or invalid-with-message on bad text    *)
(*   jq_start(s, j, 0)     consumes j, resets the previous run             *)
(*   jq_next(s)            next output (owned by the caller), invalid when *)
(*                         the run ends; asserts when there is no run to   *)
(*                         resume (never started, or already ended)        *)
(*   jq_teardown(&s)       frees the state and sets s to NULL; no-op on    *)
(*                         NULL                                            *)
(*   jv_copy(j)            one more reference to j                         *)
(*   jv_array_length(j)    consumes j                                      *)
(*   jv_array_get(j, i)    consumes j, returns a new reference to the      *)
(*                         element                                         *)
(*   jv_object_iter_key / jv_object_iter_value                             *)
(*                         borrow the object, return a new reference to    *)
(*                         the key / the value                             *)
(*   jv_object_set(o,k,v)  asserts that k is a string                      *)
(* Reads of a freed payload are undefined behaviour: the value read is a   *)
(* nondeterministic choice.  Writes to a freed payload are recorded in the *)
(* ghost flag dbl and otherwise leave the model's heap alone.              *)
(*                                                                         *)
(* Numbers are doubles; the model writes them in halves (num = 2 is 1.0,   *)
(* num = 3 is 1.5) so that jv_is_integer has something to decide.          *)
(*                                                                         *)
(* Three specifications share the variables: Spec, the calls of one        *)
(* session made one after the other; SpecConv, goToJv and jvToGo on their  *)
(* own over a bounded set of host values; SpecRace, two goroutines inside  *)
(* Next, one statement at a time.                                          *)
(***************************************************************************)
EXTENDS Integers, Sequences, FiniteSets, TLC

\* Bounds of the model.
MaxHandles == 2
MaxAlias == 1

VARIABLES
  program,     \* jq.program
  sess,        \* what the last NewJQ returned: "none" (not called), "ok", "nil"
  state,       \* jq.state: "live" or "NULL"
  lastValue,   \* jq.lastValue
  prevRefCnt,  \* jq.prevRefCnt
  refcnt,      \* heap: payload -> reference count (0: freed or never allocated)
  nAlloc,      \* heap: number of payloads allocated so far
  run,         \* engine: "idle" (no run), "running", "done" (run ended)
  outs,        \* engine: the outputs the current run produces for its input
  pos,         \* engine: how many of them jq_next has returned
  endErr,      \* engine: whether the run ends with an error value
  owned,       \* ghost: payload -> references the core holds and has not released
  tmpOwned,    \* ghost: formatting buffers the core holds and has not released
  dbl,         \* ghost: the core released a reference it no longer held
  rar,         \* ghost: the core read a handle after releasing its reference
  teardowns,   \* ghost: times jq_teardown freed this session's run-state
  closes,      \* ghost: times Close ran on this session (2: two or more)
  aborted,     \* the process died inside libjq (assertion, NULL state)
  op,          \* the last call
  ret,         \* what it returned
  fmtSince,    \* ghost: ValueJson/ValueString calls since the last Next
               \*        (2: two or more)
  disciplined, \* ghost: only Handle/Next/ValueJson/Close so far, every pulled
               \*        value formatted by ValueJson before the next pull
  doneSeen,    \* ghost: Next has returned false on the current run
  pulls,       \* ghost: Next calls that returned on the current run
  lastNext,    \* ghost: what the last call, if it was Next, read and decided
  conv,        \* a conversion on its own: goToJv of a host value, then jvToGo
  thr          \* two goroutines inside Next: each one's position and locals

vars == <<program, sess, state, lastValue, prevRefCnt, refcnt, nAlloc, run, outs, pos,
          endErr, owned, tmpOwned, dbl, rar, teardowns, closes, aborted, op,
          ret, fmtSince, disciplined, doneSeen, pulls, lastNext, conv, thr>>

Handles == 1..MaxHandles

----------------------------------------------------------------------------
\* jv values

jv_invalid == [kind |-> "invalid", num |-> 0, str |-> "", ptr |-> 0]
jv_number(d) == [kind |-> "number", num |-> d, str |-> "", ptr |-> 0]
jv_string_at(s, h) == [kind |-> "string", num |-> 0, str |-> s, ptr |-> h]
jv_invalid_with_msg_at(m, h) == [kind |-> "invalid", num |-> 0, str |-> m, ptr |-> h]

\* jv_is_valid: 0 for an invalid value
jv_is_valid(j) == IF j.kind = "invalid" THEN 0 ELSE 1

isValid_inverted(j) == jv_is_valid(j) = 0

isValid(j) == jv_is_valid(j) # 0

\* Host values and call results
HostNone == [t |-> "none", n |-> 0, s |-> ""]
NoRet == [b |-> FALSE, val |-> HostNone, text |-> "", err |-> ""]

\* jv_is_integer: the double has no fractional part
jv_is_integer(j) == j.num % 2 = 0

\* Host values are records [t, n, s]: nil, bool (n is 0 or 1), int, float (n
\* in halves), string; a list adds items (a sequence), a map adds pairs (a
\* set of [k, v], one per key).  External arrays and objects are built the
\* same way over [kind, num, str].

\* the contents jv_string_value reads from a key: a key that is no string
\* has none
KeyContents(k) == IF k.kind = "string" THEN k.str ELSE "?"

\* jvToGo, given the string contents read from the payload
RECURSIVE jvToGo(_, _)
jvToGo(j, contents) ==
  CASE j.kind = "invalid" -> [t |-> "error", n |-> 0, s |-> "invalid"]
    [] j.kind = "null" -> [t |-> "nil", n |-> 0, s |-> ""]
    [] j.kind = "false" -> [t |-> "bool", n |-> 0, s |-> ""]
    [] j.kind = "true" -> [t |-> "bool", n |-> 1, s |-> ""]
    [] j.kind = "number" ->
         IF jv_is_integer(j) THEN [t |-> "int", n |-> j.num \div 2, s |-> ""]
         ELSE [t |-> "float", n |-> j.num, s |-> ""]
    [] j.kind = "string" -> [t |-> "string", n |-> 0, s |-> contents]
    [] j.kind = "array" ->
         [t |-> "list", n |-> 0, s |-> "",
          items |-> [i \in 1..Len(j.items) |->
                       jvToGo(j.items[i], j.items[i].str)]]
    [] j.kind = "object" ->
         [t |-> "map", n |-> 0, s |-> "",
          pairs |-> { [k |-> [t |-> "string", n |-> 0, s |-> KeyContents(p.k)],
                       v |-> jvToGo(p.v, p.v.str)] : p \in j.pairs }]
    [] OTHER -> [t |-> "error", n |-> 0, s |-> "unknown type"]

\* jv_copy and jv_free count the references of these kinds only
Allocated(j) == j.kind \in {"string", "array", "object"}

\* one reference, where references are counted
Ref(j) == IF Allocated(j) THEN 1 ELSE 0

\* jvToGo: the references to members of j it has obtained and not released
\* when it returns.  jv_array_get, jv_object_iter_key and
\* jv_object_iter_value each return a new reference to the member; the
\* copy of the container handed to jv_array_length and jv_array_get is
\* consumed by them.
RECURSIVE jvToGoKept(_)
RECURSIVE KeptOfItems(_, _)
RECURSIVE KeptOfPairs(_)
jvToGoKept(j) ==
  CASE j.kind = "array" -> KeptOfItems(j.items, Len(j.items))
    [] j.kind = "object" -> KeptOfPairs(j.pairs)
    [] OTHER -> 0

KeptOfItems(items, n) ==
  IF n = 0 THEN 0
  ELSE Ref(items[n]) + jvToGoKept(items[n]) + KeptOfItems(items, n - 1)

KeptOfPairs(ps) ==
  IF ps = {} THEN 0
  ELSE LET p == CHOOSE q \in ps : TRUE
       IN Ref(p.k) + Ref(p.v) + jvToGoKept(p.v) + KeptOfPairs(ps \ {p})

\* goToJv; a map key is converted like any other value
RECURSIVE goToJv(_)
goToJv(v) ==
  CASE v.t = "nil" -> [kind |-> "null", num |-> 0, str |-> ""]
    [] v.t = "bool" ->
         IF v.n = 1 THEN [kind |-> "true", num |-> 0, str |-> ""]
         ELSE [kind |-> "false", num |-> 0, str |-> ""]
    [] v.t = "int" -> [kind |-> "number", num |-> 2 * v.n, str |-> ""]
    [] v.t = "float" -> [kind |-> "number", num |-> v.n, str |-> ""]
    [] v.t = "string" -> [kind |-> "string", num |-> 0, str |-> v.s]
    [] v.t = "list" ->
         [kind |-> "array", num |-> 0, str |-> "",
          items |-> [i \in 1..Len(v.items) |-> goToJv(v.items[i])]]
    [] v.t = "map" ->
         [kind |-> "object", num |-> 0, str |-> "",
          pairs |-> { [k |-> goToJv(p.k), v |-> goToJv(p.v)]
                      : p \in v.pairs }]
    [] OTHER -> [kind |-> "invalid", num |-> 0, str |-> "unknown type"]

\* jv_object_set requires a string key: an object holding any other key is
\* one it has asserted on (or, built without assertions, was handed anyway)
RECURSIVE HasNonStringKey(_)
HasNonStringKey(j) ==
  CASE j.kind = "array" ->
         \E i \in 1..Len(j.items) : HasNonStringKey(j.items[i])
    [] j.kind = "object" ->
         \E p \in j.pairs : p.k.kind # "string" \/ HasNonStringKey(p.v)
    [] OTHER -> FALSE

\* The text jv_dump_string produces for a valid value
DumpText(j, contents) ==
  CASE j.kind = "number" /\ j.num = 2 -> "1"
    [] j.kind = "number" /\ j.num = 3 -> "1.5"
    [] j.kind = "number" /\ j.num = 4 -> "2"
    [] j.kind = "string" -> "\"" \o contents \o "\""
    [] OTHER -> ""

----------------------------------------------------------------------------
\* Heap operations

\* jv_free on the reference counts
FreeRc(rc, j) ==
  IF j.ptr # 0 /\ rc[j.ptr] > 0 THEN [rc EXCEPT ![j.ptr] = @ - 1] ELSE rc

FreeOwn_nothing(ow, j) == ow

\* the core gives up one of its references
FreeOwn(ow, j) ==
  IF j.ptr # 0 /\ ow[j.ptr] > 0 THEN [ow EXCEPT ![j.ptr] = @ - 1] ELSE ow

\* ... which it does not have
OverRelease(ow, j) == j.ptr # 0 /\ ow[j.ptr] = 0

\* the core inspects a handle it has already released
ReadsReleased(ow, j) == j.ptr # 0 /\ ow[j.ptr] = 0

\* jv_get_refcnt: the values the read can produce
jv_get_refcnt(rc, j) ==
  IF j.kind = "string"
  THEN IF rc[j.ptr] = 0 THEN 0..(MaxAlias + 1) ELSE {rc[j.ptr]}
  ELSE {1}

\* jv_string_value: the contents the read can produce
jv_string_value(rc, j) ==
  IF j.ptr # 0 /\ rc[j.ptr] = 0 THEN {j.str, "?"} ELSE {j.str}

\* engine: the references the engine itself holds are dropped
DropAliases(rc, ow) ==
  [h \in Handles |-> IF rc[h] > ow[h] THEN ow[h] ELSE rc[h]]

RECURSIVE SumUpTo(_, _)
SumUpTo(f, n) == IF n = 0 THEN 0 ELSE f[n] + SumUpTo(f, n - 1)

\* references (to values and to formatting buffers) the core holds unreleased
OwnedTotal == SumUpTo(owned, MaxHandles) + tmpOwned

----------------------------------------------------------------------------
\* The engine

\* the program texts a caller hands to NewJQ; "(" does not compile
Programs == {".", "empty", ".,.", ".,\"a\"", ".a", "("}

\* jq_compile: 0 when the program does not compile
jq_compile(prog) == IF prog = "(" THEN 0 ELSE 1

\* what the run of a program on an input produces: its outputs (without their
\* payload addresses) and whether it ends with an error value
Run(prog, input) ==
  CASE prog = "." -> [outs |-> <<input>>, err |-> FALSE]
    [] prog = "empty" -> [outs |-> << >>, err |-> FALSE]
    [] prog = ".,." -> [outs |-> <<input, input>>, err |-> FALSE]
    [] prog = ".,\"a\"" ->
         [outs |-> <<input, [kind |-> "string", num |-> 0, str |-> "a"]>>,
          err |-> FALSE]
    [] OTHER -> [outs |-> << >>, err |-> TRUE]

\* jq_next on a run in progress: the outcomes, each the value returned and the
\* heap and engine state after the call.  A returned string is a fresh payload
\* holding the caller's reference and up to MaxAlias references of the engine;
\* the references the engine held to earlier outputs are dropped.
jq_next(rc, ow, n) ==
  LET rc0 == DropAliases(rc, ow) IN
  IF pos < Len(outs)
  THEN LET o == outs[pos + 1] IN
       IF o.kind = "string"
       THEN { [jv |-> jv_string_at(o.str, n + 1),
               rc |-> [rc0 EXCEPT ![n + 1] = 1 + a],
               ow |-> [ow EXCEPT ![n + 1] = 1],
               n |-> n + 1, run |-> "running", pos |-> pos + 1]
              : a \in IF n < MaxHandles THEN 0..MaxAlias ELSE {} }
       ELSE { [jv |-> jv_number(o.num), rc |-> rc0, ow |-> ow, n |-> n,
               run |-> "running", pos |-> pos + 1] }
  ELSE IF endErr
       THEN { [jv |-> jv_invalid_with_msg_at("error", n + 1),
               rc |-> [rc0 EXCEPT ![n + 1] = 1],
               ow |-> [ow EXCEPT ![n + 1] = 1],
               n |-> n + 1, run |-> "done", pos |-> pos]
              : a \in IF n < MaxHandles THEN {0} ELSE {} }
       ELSE { [jv |-> jv_invalid, rc |-> rc0, ow |-> ow, n |-> n,
               run |-> "done", pos |-> pos] }

\* jv_parse: the texts a caller hands to HandleJson
Texts == {"1", "\"a\"", "{"}
jv_parse(text) ==
  CASE text = "1" -> [kind |-> "number", num |-> 2, str |-> ""]
    [] text = "\"a\"" -> [kind |-> "string", num |-> 0, str |-> "a"]
    [] OTHER -> [kind |-> "invalid", num |-> 0, str |-> "parse error"]

HostIn == { [t |-> "int", n |-> 1, s |-> ""], [t |-> "string", n |-> 0, s |-> "a"] }

----------------------------------------------------------------------------
\* JQ.Next, line 49: the held handle is released when the count recorded at
\* its capture equals the count read now
ReleaseDecision_always(prev, cur) == TRUE

ReleaseDecision(prev, cur) == prev = cur

\* nothing read, nothing decided: the last call was not Next
NoNext == [seen |-> 0, released |-> FALSE]

\* the goroutines of a session: each is outside Next ("idle") or between two
\* of its statements
Threads == {1, 2}
NoThread == [pc |-> "idle", prev |-> 0, seen |-> 0, cmp |-> 0, rel |-> 0,
             jv |-> jv_invalid]
NoThr == [t \in Threads |-> NoThread]

\* no conversion under way
NoConv == [stage |-> "none", v |-> HostNone, j |-> jv_invalid,
           back |-> HostNone, kept |-> 0, aborted |-> FALSE]

InitSession ==
  /\ program = ""
  /\ sess = "none"
  /\ state = "NULL"
  /\ lastValue = jv_invalid
  /\ prevRefCnt = 0
  /\ refcnt = [h \in Handles |-> 0]
  /\ nAlloc = 0
  /\ run = "idle"
  /\ outs = << >>
  /\ pos = 0
  /\ endErr = FALSE
  /\ owned = [h \in Handles |-> 0]
  /\ tmpOwned = 0
  /\ dbl = FALSE
  /\ rar = FALSE
  /\ teardowns = 0
  /\ closes = 0
  /\ aborted = FALSE
  /\ op = "none"
  /\ ret = NoRet
  /\ fmtSince = 0
  /\ disciplined = TRUE
  /\ doneSeen = FALSE
  /\ pulls = 0
  /\ lastNext = NoNext

\* no conversion and no goroutine under way
Init ==
  /\ InitSession
  /\ conv = NoConv
  /\ thr = NoThr


----------------------------------------------------------------------------
\* The session's calls into the engine

compile_ignoring_rc(rc) == ""

\* jq.compile: rc is what jq_compile returned
compile(rc) == IF rc = 0 THEN "Unable to compile jq filter" ELSE ""

teardown_by_value(st) ==
  [state |-> st, freed |-> IF st = "NULL" THEN 0 ELSE 1]

\* jq.teardown: jq_teardown(&jq.state) frees a live state and writes NULL
\* through the pointer it is given
teardown(st) ==
  [state |-> "NULL", freed |-> IF st = "NULL" THEN 0 ELSE 1]

\* parseJson: the error path returns without releasing what jv_parse returned
parseJson(text) ==
  LET v == jv_parse(text) IN
  IF jv_is_valid(v) = 0
  THEN [err |-> "Invalid JSON", jv |-> [kind |-> "null", num |-> 0, str |-> ""],
        kept |-> 1]
  ELSE [err |-> "", jv |-> v, kept |-> 0]

dumpJson_copying(rc, ow, tmp, j) ==
  IF jv_is_valid(j) = 0
  THEN { [abort |-> TRUE, text |-> "", rc |-> rc, ow |-> ow, tmp |-> tmp,
          over |-> FALSE],
         [abort |-> FALSE, text |-> "", rc |-> rc, ow |-> ow, tmp |-> tmp,
          over |-> FALSE] }
  ELSE { [abort |-> FALSE, text |-> DumpText(j, c), rc |-> rc, ow |-> ow,
          tmp |-> tmp, over |-> FALSE] : c \in jv_string_value(rc, j) }

dumpJson_keeping_buffer(rc, ow, tmp, j) ==
  IF jv_is_valid(j) = 0
  THEN { [abort |-> TRUE, text |-> "", rc |-> rc, ow |-> ow, tmp |-> tmp,
          over |-> FALSE],
         [abort |-> FALSE, text |-> "", rc |-> FreeRc(rc, j),
          ow |-> FreeOwn(ow, j), tmp |-> tmp + 1,
          over |-> OverRelease(ow, j)] }
  ELSE { [abort |-> FALSE, text |-> DumpText(j, c), rc |-> FreeRc(rc, j),
          ow |-> FreeOwn(ow, j), tmp |-> tmp + 1,
          over |-> OverRelease(ow, j)] : c \in jv_string_value(rc, j) }

\* dumpJson: the outcomes of formatting j.  jv_dump_string takes over the
\* caller's reference to j; the string it returns is read and released.
\* An invalid j stops the process at libjq's assertion, or, in a build
\* without assertions, formats to nothing.
dumpJson(rc, ow, tmp, j) ==
  IF jv_is_valid(j) = 0
  THEN { [abort |-> TRUE, text |-> "", rc |-> rc, ow |-> ow, tmp |-> tmp,
          over |-> FALSE],
         [abort |-> FALSE, text |-> "", rc |-> FreeRc(rc, j),
          ow |-> FreeOwn(ow, j), tmp |-> (tmp + 1) - 1,
          over |-> OverRelease(ow, j)] }
  ELSE { [abort |-> FALSE, text |-> DumpText(j, c), rc |-> FreeRc(rc, j),
          ow |-> FreeOwn(ow, j), tmp |-> (tmp + 1) - 1,
          over |-> OverRelease(ow, j)] : c \in jv_string_value(rc, j) }

CloseEffect_keeping_slot(j, st, rc, ow) ==
  LET t == teardown(st)
      rc1 == FreeRc(rc, j)
      ow1 == FreeOwn(ow, j)
  IN [lastValue |-> j, state |-> t.state, freed |-> t.freed,
      refcnt |-> IF t.freed = 1 THEN DropAliases(rc1, ow1) ELSE rc1,
      owned |-> ow1, over |-> OverRelease(ow, j)]

\* JQ.Close on a session holding j with state st
CloseEffect(j, st, rc, ow) ==
  LET t == teardown(st)
      rc1 == FreeRc(rc, j)
      ow1 == FreeOwn(ow, j)
  IN [lastValue |-> jv_invalid, state |-> t.state, freed |-> t.freed,
      refcnt |-> IF t.freed = 1 THEN DropAliases(rc1, ow1) ELSE rc1,
      owned |-> ow1, over |-> OverRelease(ow, j)]

----------------------------------------------------------------------------
\* The calls

engineVars == <<run, outs, pos, endErr>>
heapVars == <<refcnt, nAlloc, owned, tmpOwned>>

\* NewJQ: the first session, or a new one once the last one is closed or
\* was never returned
NewJQ ==
  /\ ~aborted
  /\ lastNext' = NoNext
  /\ UNCHANGED <<conv, thr>>
  /\ sess = "none" \/ sess = "nil" \/ closes >= 1
  /\ \E prog \in Programs :
       LET err == compile(jq_compile(prog)) IN
       /\ program' = prog
       /\ IF err # ""
          THEN LET c == CloseEffect(jv_invalid, "live", refcnt, owned) IN
               /\ sess' = "nil"
               /\ state' = c.state
               /\ lastValue' = c.lastValue
               /\ teardowns' = c.freed
               /\ closes' = 1
               /\ ret' = [NoRet EXCEPT !.err = err]
          ELSE /\ sess' = "ok"
               /\ state' = "live"
               /\ lastValue' = jv_invalid
               /\ ret' = NoRet
               /\ teardowns' = 0
               /\ closes' = 0
  /\ prevRefCnt' = 0
  /\ run' = "idle"
  /\ outs' = << >>
  /\ pos' = 0
  /\ endErr' = FALSE
  /\ fmtSince' = 0
  /\ doneSeen' = FALSE
  /\ pulls' = 0
  /\ op' = "NewJQ"
  /\ UNCHANGED <<heapVars, dbl, rar, aborted, disciplined>>

\* the process dies in libjq
Abort(name) ==
  /\ aborted' = TRUE
  /\ op' = name
  /\ ret' = NoRet

\* jq.start: jq_start resets the engine and begins the run of the input
start(input) ==
  /\ refcnt' = DropAliases(refcnt, owned)
  /\ run' = "running"
  /\ outs' = Run(program, input).outs
  /\ pos' = 0
  /\ endErr' = Run(program, input).err
  /\ doneSeen' = FALSE
  /\ pulls' = 0

Handle ==
  /\ sess = "ok" /\ ~aborted
  /\ lastNext' = NoNext
  /\ UNCHANGED <<conv, thr>>
  /\ \E v \in HostIn :
       IF state = "NULL"
       THEN /\ Abort("Handle")
            /\ UNCHANGED <<engineVars, refcnt, doneSeen, pulls>>
       ELSE /\ start(goToJv(v))
            /\ op' = "Handle"
            /\ ret' = NoRet
            /\ UNCHANGED aborted
  /\ UNCHANGED <<program, sess, state, lastValue, prevRefCnt, nAlloc, owned, tmpOwned,
                 dbl, rar, teardowns, closes, fmtSince, disciplined>>

HandleJson ==
  /\ sess = "ok" /\ ~aborted
  /\ lastNext' = NoNext
  /\ UNCHANGED <<conv, thr>>
  /\ \E text \in Texts :
       LET p == parseJson(text) IN
       IF p.err # ""
       THEN /\ nAlloc + p.kept <= MaxHandles
            /\ nAlloc' = nAlloc + p.kept
            /\ refcnt' = [refcnt EXCEPT ![nAlloc + 1] = 1]
            /\ owned' = [owned EXCEPT ![nAlloc + 1] = 1]
            /\ op' = "HandleJson"
            /\ ret' = [NoRet EXCEPT !.err = p.err]
            /\ disciplined' = FALSE
            /\ UNCHANGED <<engineVars, aborted, doneSeen, pulls>>
       ELSE IF state = "NULL"
            THEN /\ Abort("HandleJson")
                 /\ UNCHANGED <<engineVars, refcnt, nAlloc, owned, doneSeen,
                                pulls, disciplined>>
            ELSE /\ start(p.jv)
                 /\ op' = "HandleJson"
                 /\ ret' = NoRet
                 /\ UNCHANGED <<aborted, nAlloc, owned, disciplined>>
  /\ UNCHANGED <<program, sess, state, lastValue, prevRefCnt, tmpOwned, dbl, rar,
                 teardowns, closes, fmtSince>>


\* JQ.Next (the model's next-state relation is Step, below)
Next ==
  /\ sess = "ok" /\ ~aborted
  /\ UNCHANGED <<conv, thr>>
  /\ \E cur \in jv_get_refcnt(refcnt, lastValue) :
       LET release == ReleaseDecision(prevRefCnt, cur)
           rc1 == IF release THEN FreeRc(refcnt, lastValue) ELSE refcnt
           ow1 == IF release THEN FreeOwn(owned, lastValue) ELSE owned
       IN /\ lastNext' = [seen |-> cur, released |-> release]
          /\ dbl' = (dbl \/ (release /\ OverRelease(owned, lastValue)))
          /\ rar' = (rar \/ (lastValue.kind = "string"
                               /\ ReadsReleased(owned, lastValue)))
          /\ IF state = "NULL" \/ run # "running"
             THEN /\ Abort("Next")
                  /\ refcnt' = rc1
                  /\ owned' = ow1
                  /\ UNCHANGED <<lastValue, prevRefCnt, nAlloc, engineVars,
                                 fmtSince, disciplined, doneSeen, pulls>>
             ELSE \E r \in jq_next(rc1, ow1, nAlloc) :
                    /\ lastValue' = r.jv
                    /\ prevRefCnt' \in jv_get_refcnt(r.rc, r.jv)
                    /\ refcnt' = r.rc
                    /\ owned' = r.ow
                    /\ nAlloc' = r.n
                    /\ run' = r.run
                    /\ pos' = r.pos
                    /\ op' = "Next"
                    /\ ret' = [NoRet EXCEPT !.b = isValid(r.jv)]
                    /\ fmtSince' = 0
                    /\ disciplined' =
                         (disciplined
                            /\ ~(jv_is_valid(lastValue) = 1 /\ fmtSince = 0))
                    /\ doneSeen' = (jv_is_valid(r.jv) = 0)
                    /\ pulls' = pulls + 1
                    /\ UNCHANGED <<outs, endErr, aborted>>
  /\ UNCHANGED <<program, sess, state, tmpOwned, teardowns, closes>>

\* JQ.Value
Value ==
  /\ sess = "ok" /\ ~aborted
  /\ lastNext' = NoNext
  /\ UNCHANGED <<conv, thr>>
  /\ \E c \in jv_string_value(refcnt, lastValue) :
       ret' = [NoRet EXCEPT !.val = jvToGo(lastValue, c)]
  /\ rar' = (rar \/ ReadsReleased(owned, lastValue))
  /\ op' = "Value"
  /\ disciplined' = FALSE
  /\ UNCHANGED <<program, sess, state, lastValue, prevRefCnt, engineVars, heapVars,
                 dbl, teardowns, closes, aborted, fmtSince, doneSeen,
                 pulls>>

\* JQ.ValueJson
ValueJson ==
  /\ sess = "ok" /\ ~aborted
  /\ lastNext' = NoNext
  /\ UNCHANGED <<conv, thr>>
  /\ \E d \in dumpJson(refcnt, owned, tmpOwned, lastValue) :
       /\ aborted' = d.abort
       /\ ret' = [NoRet EXCEPT !.text = d.text]
       /\ refcnt' = d.rc
       /\ owned' = d.ow
       /\ tmpOwned' = d.tmp
       /\ dbl' = (dbl \/ d.over)
  /\ rar' = (rar \/ ReadsReleased(owned, lastValue))
  /\ op' = "ValueJson"
  /\ fmtSince' = IF fmtSince = 0 THEN 1 ELSE 2
  /\ UNCHANGED <<program, sess, state, lastValue, prevRefCnt, engineVars, nAlloc,
                 teardowns, closes, disciplined, doneSeen, pulls>>

\* JQ.ValueString
ValueString ==
  /\ sess = "ok" /\ ~aborted
  /\ lastNext' = NoNext
  /\ UNCHANGED <<conv, thr>>
  /\ IF lastValue.kind = "string"
     THEN /\ \E c \in jv_string_value(refcnt, lastValue) :
               ret' = [NoRet EXCEPT !.text = c]
          /\ refcnt' = FreeRc(refcnt, lastValue)
          /\ owned' = FreeOwn(owned, lastValue)
          /\ dbl' = (dbl \/ OverRelease(owned, lastValue))
          /\ UNCHANGED <<tmpOwned, aborted>>
     ELSE \E d \in dumpJson(refcnt, owned, tmpOwned, lastValue) :
            /\ aborted' = d.abort
            /\ ret' = [NoRet EXCEPT !.text = d.text]
            /\ refcnt' = d.rc
            /\ owned' = d.ow
            /\ tmpOwned' = d.tmp
            /\ dbl' = (dbl \/ d.over)
  /\ rar' = (rar \/ ReadsReleased(owned, lastValue))
  /\ op' = "ValueString"
  /\ fmtSince' = IF fmtSince = 0 THEN 1 ELSE 2
  /\ disciplined' = FALSE
  /\ UNCHANGED <<program, sess, state, lastValue, prevRefCnt, engineVars,
                 nAlloc, teardowns, closes, doneSeen, pulls>>

\* JQ.Close
Close ==
  /\ sess = "ok" /\ ~aborted
  /\ lastNext' = NoNext
  /\ UNCHANGED <<conv, thr>>
  /\ LET c == CloseEffect(lastValue, state, refcnt, owned) IN
       /\ lastValue' = c.lastValue
       /\ state' = c.state
       /\ refcnt' = c.refcnt
       /\ owned' = c.owned
       /\ dbl' = (dbl \/ c.over)
       /\ teardowns' = teardowns + c.freed
  /\ closes' = IF closes = 0 THEN 1 ELSE 2
  /\ op' = "Close"
  /\ ret' = NoRet
  /\ UNCHANGED <<program, sess, prevRefCnt, nAlloc, tmpOwned, engineVars, rar, aborted,
                 fmtSince, disciplined, doneSeen, pulls>>

----------------------------------------------------------------------------
\* The conversions on their own: goToJv of a host value, then jvToGo of the
\* result

sessionVars == <<program, sess, state, lastValue, prevRefCnt, refcnt, nAlloc,
                 run, outs, pos, endErr, owned, tmpOwned, dbl, rar, teardowns,
                 closes, aborted, op, ret, fmtSince, disciplined, doneSeen,
                 pulls, lastNext>>

\* longest list converted
MaxLen == 2

HostScalars ==
  { [t |-> "nil", n |-> 0, s |-> ""],
    [t |-> "bool", n |-> 0, s |-> ""], [t |-> "bool", n |-> 1, s |-> ""],
    [t |-> "int", n |-> 1, s |-> ""],
    [t |-> "float", n |-> 3, s |-> ""], [t |-> "float", n |-> 2, s |-> ""],
    [t |-> "string", n |-> 0, s |-> "a"],
    [t |-> "chan", n |-> 0, s |-> ""] }

\* map keys: strings, and an int
HostKeys ==
  { [t |-> "string", n |-> 0, s |-> "a"], [t |-> "string", n |-> 0, s |-> "b"],
    [t |-> "int", n |-> 1, s |-> ""] }

ListsOver(S, n) ==
  { [t |-> "list", n |-> 0, s |-> "", items |-> xs]
    : xs \in UNION { [1..k -> S] : k \in 0..n } }

MapsOver(S) ==
  { [t |-> "map", n |-> 0, s |-> "", pairs |-> { [k |-> k, v |-> f[k]] : k \in K }]
    : <<K, f>> \in UNION { {K} \X [K -> S] : K \in SUBSET HostKeys } }

HostFlat == HostScalars \cup ListsOver(HostScalars, MaxLen) \cup MapsOver(HostScalars)

\* the host values converted: scalars, lists and maps of scalars, and lists
\* of one list or map
HostValues == HostFlat \cup ListsOver(HostFlat \ HostScalars, 1)

InitConv ==
  /\ InitSession
  /\ thr = NoThr
  /\ \E v \in HostValues : conv = [NoConv EXCEPT !.stage = "in", !.v = v]

\* goToJv(v).  A key that is no string stops the process at jv_object_set's
\* assertion; built without assertions, the object gets the key as it is.
ConvGoToJv ==
  /\ conv.stage = "in"
  /\ LET j == goToJv(conv.v) IN
       \/ /\ HasNonStringKey(j)
          /\ conv' = [conv EXCEPT !.stage = "dead", !.aborted = TRUE]
       \/ conv' = [conv EXCEPT !.stage = "ext", !.j = j]
  /\ UNCHANGED <<sessionVars, thr>>

\* jvToGo of the value goToJv returned
ConvJvToGo ==
  /\ conv.stage = "ext"
  /\ conv' = [conv EXCEPT !.stage = "out",
                          !.back = jvToGo(conv.j, conv.j.str),
                          !.kept = jvToGoKept(conv.j)]
  /\ UNCHANGED <<sessionVars, thr>>

StepConv ==
  \/ ConvGoToJv
  \/ ConvJvToGo

SpecConv == InitConv /\ [][StepConv]_vars

----------------------------------------------------------------------------
\* Two goroutines calling Next on one session with nothing to order them.
\* Each statement of Next (lines 49-54) is a step of its own; thr[t] holds
\* where goroutine t is and what it has read.

AllIdle == \A t \in Threads : thr[t].pc = "idle"

raceGhosts == <<fmtSince, disciplined, doneSeen, pulls, lastNext, conv>>

\* the session is built and fed while no goroutine is inside Next
RaceNewJQ == AllIdle /\ NewJQ

RaceHandleJson == AllIdle /\ HandleJson

\* line 49: jq.prevRefCnt == jq.jv_get_refcnt()
RaceCompare(t) ==
  /\ sess = "ok" /\ ~aborted
  /\ thr[t].pc = "idle"
  /\ \E cur \in jv_get_refcnt(refcnt, lastValue) :
       thr' = [thr EXCEPT ![t] =
                 [pc |-> IF ReleaseDecision(prevRefCnt, cur) THEN "release"
                         ELSE "pull",
                  prev |-> prevRefCnt, seen |-> cur, cmp |-> lastValue.ptr,
                  rel |-> 0, jv |-> jv_invalid]]
  /\ rar' = (rar \/ (lastValue.kind = "string"
                       /\ ReadsReleased(owned, lastValue)))
  /\ UNCHANGED <<program, sess, state, lastValue, prevRefCnt, heapVars,
                 engineVars, dbl, teardowns, closes, aborted, op, ret,
                 raceGhosts>>

\* line 50: freeJv(jq.lastValue)
RaceRelease(t) ==
  /\ ~aborted
  /\ thr[t].pc = "release"
  /\ refcnt' = FreeRc(refcnt, lastValue)
  /\ owned' = FreeOwn(owned, lastValue)
  /\ dbl' = (dbl \/ OverRelease(owned, lastValue))
  /\ thr' = [thr EXCEPT ![t].pc = "pull", ![t].rel = lastValue.ptr]
  /\ UNCHANGED <<program, sess, state, lastValue, prevRefCnt, nAlloc,
                 tmpOwned, engineVars, rar, teardowns, closes, aborted, op,
                 ret, raceGhosts>>

\* line 52, right-hand side: jq.next()
RacePull(t) ==
  /\ ~aborted
  /\ thr[t].pc = "pull"
  /\ IF state = "NULL" \/ run # "running"
     THEN /\ Abort("Next")
          /\ UNCHANGED <<thr, refcnt, owned, nAlloc, run, pos>>
     ELSE \E r \in jq_next(refcnt, owned, nAlloc) :
            /\ thr' = [thr EXCEPT ![t].pc = "store", ![t].jv = r.jv]
            /\ refcnt' = r.rc
            /\ owned' = r.ow
            /\ nAlloc' = r.n
            /\ run' = r.run
            /\ pos' = r.pos
            /\ UNCHANGED <<aborted, op, ret>>
  /\ UNCHANGED <<program, sess, state, lastValue, prevRefCnt, tmpOwned, outs,
                 endErr, dbl, rar, teardowns, closes, raceGhosts>>

\* line 52, assignment: jq.lastValue = ...
RaceStore(t) ==
  /\ ~aborted
  /\ thr[t].pc = "store"
  /\ lastValue' = thr[t].jv
  /\ thr' = [thr EXCEPT ![t].pc = "count"]
  /\ UNCHANGED <<program, sess, state, prevRefCnt, heapVars, engineVars, dbl,
                 rar, teardowns, closes, aborted, op, ret, raceGhosts>>

\* lines 53-54: jq.prevRefCnt = jq.jv_get_refcnt(); return isValid(jq.lastValue)
RaceCount(t) ==
  /\ ~aborted
  /\ thr[t].pc = "count"
  /\ prevRefCnt' \in jv_get_refcnt(refcnt, lastValue)
  /\ rar' = (rar \/ (lastValue.kind = "string"
                       /\ ReadsReleased(owned, lastValue)))
  /\ op' = "Next"
  /\ ret' = [NoRet EXCEPT !.b = isValid(lastValue)]
  /\ thr' = [thr EXCEPT ![t] = NoThread]
  /\ UNCHANGED <<program, sess, state, lastValue, heapVars, engineVars, dbl,
                 teardowns, closes, aborted, raceGhosts>>

StepRace ==
  \/ RaceNewJQ
  \/ RaceHandleJson
  \/ \E t \in Threads :
       \/ RaceCompare(t)
       \/ RaceRelease(t)
       \/ RacePull(t)
       \/ RaceStore(t)
       \/ RaceCount(t)

SpecRace == Init /\ [][StepRace]_vars

----------------------------------------------------------------------------
Step ==
  \/ NewJQ
  \/ Handle
  \/ HandleJson
  \/ Next
  \/ Value
  \/ ValueJson
  \/ ValueString
  \/ Close

Spec == Init /\ [][Step]_vars


----------------------------------------------------------------------------
\* Properties

Accessors == {"Value", "ValueJson", "ValueString"}

\* C1: in every single-threaded call sequence on one session, the core never
\* releases a reference it no longer holds and never reads a handle (its
\* reference count or contents) after releasing its reference to it.
C1_NoOverReleaseNoReadAfterRelease == ~dbl /\ ~rar

\* C2: Value, ValueJson and ValueString are read-only: a call of any of them
\* leaves the held handle, the recorded reference count and the reference
\* counts of the heap as they were.
C2_AccessorsReadOnly ==
  [][op' \in Accessors =>
       (lastValue' = lastValue /\ prevRefCnt' = prevRefCnt /\ refcnt' = refcnt)]_vars

\* C3: once Next has returned false on a run, every later Next on that run
\* (no Handle/HandleJson in between) returns, and returns false.
C3_FalseStaysFalse ==
  [][(doneSeen /\ op' = "Next") => (~aborted' /\ ~ret'.b)]_vars

\* the held value is the engine output o
HeldIs(o) ==
  lastValue.kind = o.kind /\ lastValue.num = o.num /\ lastValue.str = o.str

\* C4: when the run produces o1..on, the k-th Next of the run (k <= n) returns
\* true and holds ok, Value called on it yields ok, and the (n+1)-th Next
\* returns false.
C4_OutputsInOrder ==
  /\ (op = "Next" /\ ~aborted) =>
       IF pulls <= Len(outs)
       THEN ret.b /\ HeldIs(outs[pulls])
       ELSE ~ret.b /\ pulls = Len(outs) + 1
  /\ (op = "Value" /\ fmtSince = 0 /\ closes = 0
        /\ pulls >= 1 /\ pulls <= Len(outs)) =>
       ret.val = jvToGo(outs[pulls], outs[pulls].str)

C4_Witness ==
  op = "Next" /\ ~aborted /\ pulls = 3 /\ Len(outs) = 2 /\ ~ret.b

\* C5: whatever state Close is called in, the held slot is the invalid
\* sentinel afterwards, and a Close on a closed session releases nothing.
C5_CloseIdempotent ==
  [][op' = "Close" =>
       /\ lastValue' = jv_invalid
       /\ closes >= 1 => (refcnt' = refcnt /\ owned' = owned /\ dbl' = dbl)]_vars

C5_Witness == op = "Close" /\ closes = 2 /\ pulls >= 1 /\ fmtSince > 0

\* C6: once Close has run on a session (NewJQ's own Close after a failed
\* compile included), the run-state has been torn down exactly once.
C6_TeardownOnce == teardowns <= 1 /\ (closes >= 1 => teardowns = 1)

C6_Witness == closes = 2 /\ teardowns = 1

\* C7: when the program does not compile, NewJQ returns an error and no
\* session, the session it built has been closed and torn down, and no
\* operation runs on it afterwards.
C7_CompileFailure ==
  (sess # "none" /\ jq_compile(program) = 0) =>
    /\ sess = "nil"
    /\ ret.err # ""
    /\ state = "NULL" /\ teardowns = 1 /\ closes = 1
    /\ op = "NewJQ"

C7_Witness == sess = "nil" /\ program = "("

\* C8: a HandleJson that fails to parse starts no run, leaves the held value,
\* the recorded count and the run-state as they were, and leaves the core
\* holding no handle it did not hold before.
C8_ParseFailureLeavesNothing ==
  [][(op' = "HandleJson" /\ ret'.err # "") =>
       /\ UNCHANGED <<lastValue, prevRefCnt, state, run, outs, pos, endErr>>
       /\ OwnedTotal' = OwnedTotal]_vars

\* C9: over Handle/Next/ValueJson/Close cycles in which every pulled value is
\* formatted with ValueJson before the next pull, the core holds at most one
\* unreleased reference.
C9_BoundedOwned == disciplined => OwnedTotal <= 1

C9_Witness ==
  disciplined /\ op = "ValueJson" /\ nAlloc >= 2 /\ pulls = 2 /\ ~aborted

\* C10: an accessor called while no value is held (before the first Next, or
\* after a Next that returned false) returns, with the invalid/empty result.
C10_AccessorsOnInvalid ==
  (op \in Accessors /\ closes = 0 /\ jv_is_valid(lastValue) = 0) =>
    /\ ~aborted
    /\ IF op = "Value"
       THEN ret.val = [t |-> "error", n |-> 0, s |-> "invalid"]
       ELSE ret.text = ""

\* C12: on a held string ValueString returns the string's contents as they
\* are; on a held value of any other kind it returns the text ValueJson
\* returns and changes the reference counts as ValueJson does.
C12_ValueStringRawOrJson ==
  [][op' = "ValueString" =>
       IF lastValue.kind = "string"
       THEN ~aborted' /\ ret'.text = lastValue.str
       ELSE \E d \in dumpJson(refcnt, owned, tmpOwned, lastValue) :
              ret'.text = d.text /\ refcnt' = d.rc /\ aborted' = d.abort]_vars

\* C13: Next releases the handle it held exactly when the count recorded at
\* its capture equals the count it reads on it now, and leaves it alone
\* otherwise; once the newly pulled handle is stored, the recorded count is
\* that handle's reference count.
C13_ReleasePolicy ==
  [][op' = "Next" =>
       LET h == lastValue.ptr
           equal == (prevRefCnt = lastNext'.seen)
       IN /\ lastNext'.seen \in jv_get_refcnt(refcnt, lastValue)
          /\ lastNext'.released = equal
          /\ h # 0 =>
               owned'[h] = IF equal /\ owned[h] > 0 THEN owned[h] - 1
                           ELSE owned[h]
          /\ ~aborted' =>
               prevRefCnt' \in jv_get_refcnt(refcnt', lastValue')]_vars

C13_Witness ==
  /\ op = "Next" /\ ~aborted /\ pulls = 2
  /\ lastNext.released /\ lastNext.seen = 2
  /\ ~dbl /\ ~rar

\* C14: Handle and HandleJson release what is still held of the previous run
\* before the new run begins: when the new run has begun, the session holds
\* no value of the previous run.
C14_StartSupersedesHeld ==
  (op \in {"Handle", "HandleJson"} /\ ~aborted /\ ret.err = "") =>
    jv_is_valid(lastValue) = 0

\* C16: when exactly one of ValueJson and ValueString was called on the held
\* value since the Next that pulled it, and the engine still holds a
\* reference of its own to it, the next Next does not release it, and the
\* core's reference to it has been released once: by the accessor.
C16_OneFormatThenSkip ==
  [][(/\ op' = "Next"
      /\ fmtSince = 1
      /\ jv_is_valid(lastValue) = 1 /\ lastValue.ptr # 0
      /\ refcnt[lastValue.ptr] > owned[lastValue.ptr]) =>
       /\ ~lastNext'.released
       /\ owned[lastValue.ptr] = 0 /\ owned'[lastValue.ptr] = 0
       /\ dbl' = dbl]_vars

C16_Witness ==
  /\ op = "Next" /\ ~aborted /\ pulls = 2
  /\ ~lastNext.released /\ lastNext.seen = 1
  /\ ~dbl

\* C17: two goroutines calling Next on one session with nothing to order
\* them can both find the counts of the same held handle equal and both
\* release it.  Whenever a goroutine has released, it had found the counts
\* equal; whenever both have released the same handle, the core has released
\* a reference it did not hold.
C17_BothRelease ==
  /\ \A t \in Threads :
       (thr[t].pc = "release" \/ thr[t].rel # 0) => thr[t].prev = thr[t].seen
  /\ (thr[1].rel # 0 /\ thr[1].rel = thr[2].rel) => dbl

C17_Witness ==
  /\ thr[1].rel # 0 /\ thr[1].rel = thr[2].rel
  /\ thr[1].cmp = thr[1].rel /\ thr[2].cmp = thr[2].rel
  /\ thr[1].pc = "pull" /\ thr[2].pc = "pull"

\* a host value built only from nil, bool, int, float, string, list and
\* string-keyed map
RECURSIVE InContract(_)
InContract(v) ==
  CASE v.t \in {"nil", "bool", "int", "float", "string"} -> TRUE
    [] v.t = "list" -> \A i \in 1..Len(v.items) : InContract(v.items[i])
    [] v.t = "map" ->
         \A p \in v.pairs : p.k.t = "string" /\ InContract(p.v)
    [] OTHER -> FALSE

\* C11: for every host value v built only from nil, bool, int, float,
\* string, list and string-keyed map, jvToGo(goToJv(v)) is structurally
\* equal to v, the Int/Float variant of every number and the length and
\* order of every list included.
C11_RoundTrip ==
  (conv.stage = "out" /\ InContract(conv.v)) => conv.back = conv.v

\* C15: jvToGo of an array or object releases every element, key and value
\* reference it obtains, so that when it returns the reference counts of the
\* container and of all its members are what they were before the call.
C15_MembersReleased == conv.stage = "out" => conv.kept = 0

\* C18: goToJv of a map converts a key that is no string to its string form
\* before inserting it: the conversion returns, and every key of the object
\* it returns is of string kind.
C18_KeysStringified ==
  conv.stage \in {"dead", "ext", "out"} =>
    ~conv.aborted /\ ~HasNonStringKey(conv.j)

====
